---- MODULE Spec2Model ----
(***************************************************************************)
(* A model of nurbs/Surface.py (class Surface): the configuration setters, *)
(* the bulk evaluators evaluate() and evaluate_rational(), the derivative  *)
(* table, tangent and normal, and the homogeneous control point view.      *)
(*                                                                         *)
(* Python floats are modelled as exact rationals <<n, d>> (d > 0, lowest   *)
(* terms); Python lists as sequences, indexed from 0 through PyAt with     *)
(* Python's negative-index rule.  The helpers of nurbs.utilities are not   *)
(* part of the source tree; they are modelled from their description in    *)
(* the specification (sections 4.1 and 4.4).                               *)
(***************************************************************************)
EXTENDS Integers, Sequences, FiniteSets, TLC

(***************************************************************************)
(* Bounds of the model.                                                    *)
(***************************************************************************)
\* largest degree handed to the degree setters
MaxDegree == 2
\* evaluate()/evaluate_rational() are explored only while the sampling grid
\* has at most MaxSteps steps per axis (1/delta <= MaxSteps)
MaxSteps == 2
\* largest derivative order handed to derivatives()
MaxOrder == 2
\* rows the 2D view may hold before a further ctrlpts assignment is explored
MaxRows2D == 1

(***************************************************************************)
(* Exact rational arithmetic (the model of float).                         *)
(***************************************************************************)
Abs(x) == IF x < 0 THEN -x ELSE x

RECURSIVE GCD(_, _)
GCD(a, b) == IF b = 0 THEN a ELSE GCD(b, a % b)

Rat(n, d) ==
    LET g == GCD(Abs(n), Abs(d))
        sg == IF d < 0 THEN -1 ELSE 1
    IN  <<(sg * n) \div g, (sg * d) \div g>>

R(n) == <<n, 1>>
RZero == R(0)
ROne == R(1)
RAdd(a, b) == Rat(a[1] * b[2] + b[1] * a[2], a[2] * b[2])
RSub(a, b) == Rat(a[1] * b[2] - b[1] * a[2], a[2] * b[2])
RMul(a, b) == Rat(a[1] * b[1], a[2] * b[2])
\* only used where b # 0 has been established
RDiv(a, b) == Rat(a[1] * b[2], a[2] * b[1])
RNeg(a) == <<-a[1], a[2]>>
RLt(a, b) == a[1] * b[2] < b[1] * a[2]
RLe(a, b) == a[1] * b[2] <= b[1] * a[2]
RIsZero(a) == a[1] = 0

\* float(c) for every c of a sequence of integers
FloatSeq(xs) == [i \in 1..Len(xs) |-> R(xs[i])]

\* xs[1] + ... + xs[n]
RECURSIVE RSumTo(_, _)
RSumTo(xs, n) == IF n = 0 THEN RZero ELSE RAdd(RSumTo(xs, n - 1), xs[n])

RSum(xs) == RSumTo(xs, Cardinality(DOMAIN xs))

V3Zero == <<RZero, RZero, RZero>>
V3Sub(a, b) == <<RSub(a[1], b[1]), RSub(a[2], b[2]), RSub(a[3], b[3])>>

(***************************************************************************)
(* Python list indexing: 0-based, negative indices count from the end.     *)
(***************************************************************************)
\* list(xs): the items of xs, each computed once
PyList(xs) == <<>> \o xs

PyHas(xs, i) == i >= -Len(xs) /\ i < Len(xs)
PyAt(xs, i) == IF i >= 0 THEN xs[i + 1] ELSE xs[Len(xs) + i + 1]


(***************************************************************************)
(* nurbs.utilities, modelled from the specification (section 4.1).         *)
(* A helper applied outside the domain the specification describes (no     *)
(* span satisfies knots[i] <= u < knots[i+1], a knot index out of range,   *)
(* a zero knot difference as divisor) has no described result: the         *)
(* *_defined predicates say where the description applies, and a call of   *)
(* Surface that leaves that domain is not explored further.                *)
(***************************************************************************)
NonDecreasing(kv) == \A i \in 1..(Len(kv) - 1) : RLe(kv[i], kv[i + 1])

\* normalize(knots): every entry divided by the maximum entry
normalize_knotvector(kv) ==
    IF kv = <<>> \/ ~NonDecreasing(kv) \/ RIsZero(kv[Len(kv)])
    THEN [exc |-> "InvalidInput", val |-> <<>>]
    ELSE [exc |-> "none", val |-> [i \in 1..Len(kv) |-> RDiv(kv[i], kv[Len(kv)])]]

\* frange(0, 1, delta): 0, delta, 2*delta, ... while <= 1
frange(delta) ==
    PyList([k \in 1..((delta[2] \div delta[1]) + 1) |-> Rat((k - 1) * delta[1], delta[2])])

InUnit(u) == RLe(RZero, u) /\ RLe(u, ROne)

find_span_defined(degree, knots, num, u) ==
    /\ InUnit(u)
    /\ \/ u = ROne
       \/ /\ num < Len(knots)
          /\ \E i \in degree..(num - 1) :
                RLe(PyAt(knots, i), u) /\ RLt(u, PyAt(knots, i + 1))

\* the binary search over [degree, num_ctrlpts)
RECURSIVE SpanSearch(_, _, _, _)
SpanSearch(knots, u, low, high) ==
    LET mid == (low + high) \div 2
    IN  IF RLt(u, PyAt(knots, mid)) THEN SpanSearch(knots, u, low, mid)
        ELSE IF RLe(PyAt(knots, mid + 1), u) THEN SpanSearch(knots, u, mid, high)
        ELSE mid

\* u == 1.0 maps to the last span, num_ctrlpts - 1
find_span(degree, knots, num, u) ==
    IF u = ROne THEN num - 1 ELSE SpanSearch(knots, u, degree, num)

\* left[j] = u - knots[span+1-j], right[j] = knots[span+j] - u
BLeft(knots, span, u, j) == RSub(u, PyAt(knots, span + 1 - j))
BRight(knots, span, u, j) == RSub(PyAt(knots, span + j), u)
\* the knot difference right[r+1] + left[j-r]
BDiff(knots, span, u, j, r) == RAdd(BRight(knots, span, u, r + 1), BLeft(knots, span, u, j - r))

basis_defined(degree, knots, span, u) ==
    /\ span + 1 - degree >= 0
    /\ span + degree < Len(knots)
    /\ \A j \in 1..degree : \A r \in 0..(j - 1) : ~RIsZero(BDiff(knots, span, u, j, r))

\* one pass of the triangular Cox-de Boor recursion: from the j values of
\* degree j-1 (N, 1-based) to the j+1 values of degree j
BasisStep(knots, span, u, N, j) ==
    LET temp(r) == RDiv(N[r + 1], BDiff(knots, span, u, j, r))
    IN  PyList([q \in 1..(j + 1) |->
            LET r == q - 1
            IN  RAdd(IF r > 0 THEN RMul(BLeft(knots, span, u, j - r + 1), temp(r - 1)) ELSE RZero,
                     IF r < j THEN RMul(BRight(knots, span, u, r + 1), temp(r)) ELSE RZero)])

RECURSIVE BasisUpTo(_, _, _, _)
BasisUpTo(knots, span, u, j) ==
    IF j = 0 THEN <<ROne>> ELSE BasisStep(knots, span, u, BasisUpTo(knots, span, u, j - 1), j)

\* the degree+1 nonzero basis function values at u
basis_functions(degree, knots, span, u) == BasisUpTo(knots, span, u, degree)

\* ndu[j][r], r < j: the knot differences (lower triangle)
NduLow(knots, span, u, j, r) == BDiff(knots, span, u, j, r)

\* ndu[r][j], r <= j: the basis values of degree j (upper triangle)
RECURSIVE NduUp(_, _, _, _, _)
NduUp(knots, span, u, r, j) ==
    IF j = 0 THEN ROne
    ELSE RAdd(IF r > 0
                THEN RMul(BLeft(knots, span, u, j - r + 1),
                          RDiv(NduUp(knots, span, u, r - 1, j - 1), NduLow(knots, span, u, j, r - 1)))
                ELSE RZero,
              IF r < j
                THEN RMul(BRight(knots, span, u, r + 1),
                          RDiv(NduUp(knots, span, u, r, j - 1), NduLow(knots, span, u, j, r)))
                ELSE RZero)

\* a[.][j] after the k-th pass of the back-substitution for basis function r
RECURSIVE DersA(_, _, _, _, _, _, _)
DersA(p, knots, span, u, r, k, j) ==
    LET rk == r - k
        pk == p - k
        j1 == IF rk >= -1 THEN 1 ELSE -rk
        j2 == IF r - 1 <= pk THEN k - 1 ELSE p - r
    IN  IF k = 0 THEN (IF j = 0 THEN ROne ELSE RZero)
        ELSE IF j = 0 /\ r >= k
            THEN RDiv(DersA(p, knots, span, u, r, k - 1, 0), NduLow(knots, span, u, pk + 1, rk))
        ELSE IF j >= j1 /\ j <= j2
            THEN RDiv(RSub(DersA(p, knots, span, u, r, k - 1, j),
                           DersA(p, knots, span, u, r, k - 1, j - 1)),
                      NduLow(knots, span, u, pk + 1, rk + j))
        ELSE IF j = k /\ r <= pk
            THEN RDiv(RNeg(DersA(p, knots, span, u, r, k - 1, k - 1)), NduLow(knots, span, u, pk + 1, r))
        ELSE RZero

\* the indices j of a[.][j] that the k-th pass for basis function r writes
DersTerms(p, r, k) ==
    LET rk == r - k
        pk == p - k
        j1 == IF rk >= -1 THEN 1 ELSE -rk
        j2 == IF r - 1 <= pk THEN k - 1 ELSE p - r
    IN  (IF r >= k THEN {0} ELSE {}) \cup (j1..j2) \cup (IF r <= pk THEN {k} ELSE {})

\* degree! / (degree - k)!
RECURSIVE FallingFactorial(_, _)
FallingFactorial(p, k) == IF k = 0 THEN 1 ELSE (p - k + 1) * FallingFactorial(p, k - 1)

\* der[k][j], k = 0..order, j = 0..degree (1-based sequences of sequences)
basis_functions_ders(degree, knots, span, u, order) ==
    PyList([kk \in 1..(order + 1) |->
        PyList([rr \in 1..(degree + 1) |->
            LET k == kk - 1
                r == rr - 1
                term(j) == RMul(DersA(degree, knots, span, u, r, k, j),
                                NduUp(knots, span, u, r - k + j, degree - k))
                    written == DersTerms(degree, r, k)
                    d == RSum([jj \in 1..(k + 1) |-> IF (jj - 1) \in written THEN term(jj - 1) ELSE RZero])
            IN  IF k = 0 THEN NduUp(knots, span, u, r, degree)
                ELSE RMul(R(FallingFactorial(degree, k)), d)])])

\* check_uv(u, v): both parameters in [0, 1]; with test_normal, both more
\* than one sampling step away from either boundary
check_uv(u, v, test_normal, delta) ==
    IF ~InUnit(u) \/ ~InUnit(v) THEN "InvalidInput"
    ELSE IF test_normal /\ ~(/\ RLt(delta, u) /\ RLt(u, RSub(ROne, delta))
                             /\ RLt(delta, v) /\ RLt(v, RSub(ROne, delta)))
        THEN "DomainError"
    ELSE "none"

cross_vector(a, b) ==
    <<RSub(RMul(a[2], b[3]), RMul(a[3], b[2])),
      RSub(RMul(a[3], b[1]), RMul(a[1], b[3])),
      RSub(RMul(a[1], b[2]), RMul(a[2], b[1]))>>

\* the exact square root of a rational that is a perfect square
RECURSIVE SqrtSearch(_, _, _)
SqrtSearch(n, low, high) ==
    LET mid == (low + high + 1) \div 2
    IN  IF low = high THEN low
        ELSE IF mid * mid <= n THEN SqrtSearch(n, mid, high)
        ELSE SqrtSearch(n, low, mid - 1)

ISqrt(n) == SqrtSearch(n, 0, IF n < 46340 THEN n ELSE 46340)
IsSquare(n) == ISqrt(n) * ISqrt(n) = n
V3Norm2(a) == RAdd(RAdd(RMul(a[1], a[1]), RMul(a[2], a[2])), RMul(a[3], a[3]))
norm_defined(a) == LET m == V3Norm2(a) IN IsSquare(m[1]) /\ IsSquare(m[2])

\* normalize_vector: the vector scaled to unit length
normalize_vector(a) ==
    LET m == V3Norm2(a)
        len == <<ISqrt(m[1]), ISqrt(m[2])>>
    IN  <<RDiv(a[1], len), RDiv(a[2], len), RDiv(a[3], len)>>

(***************************************************************************)
(* class Surface.  A Surface object is a record of its fields; a method is *)
(* an operator from the object (and its arguments) to [st, exc, val]: the  *)
(* object after the call, the exception raised ("none" when the call       *)
(* returns) and the value returned.                                        *)
(*                                                                         *)
(* _mCtrlPts and _mWeights are [nested, list]: the ctrlptsw setter stores  *)
(* lists of rows where every other writer stores flat lists, and nested    *)
(* records which of the two shapes the Python list has.                    *)
(***************************************************************************)
FlatList(xs) == [nested |-> FALSE, list |-> xs]
NestedList(xs) == [nested |-> xs # <<>>, list |-> xs]

\* the sampling step __init__ sets: 0.01
DefaultDelta == <<1, 100>>

\* Surface.__init__
NewSurface ==
    [mDegreeU |-> 0, mDegreeV |-> 0,
     mKnotVectorU |-> <<>>, mKnotVectorV |-> <<>>,
     mCtrlPts |-> FlatList(<<>>), mCtrlPts2D |-> <<>>,
     mCtrlPts_sizeU |-> 0, mCtrlPts_sizeV |-> 0,
     mWeights |-> FlatList(<<>>),
     mDelta |-> DefaultDelta,
     mSurfPts |-> <<>>]

Return(s, v) == [st |-> s, exc |-> "none", val |-> v]
Raise(s, e) == [st |-> s, exc |-> e, val |-> <<>>]

\* Surface._reset_surface
reset_surface(s) == [s EXCEPT !.mSurfPts = <<>>]

\* Surface._reset_ctrlpts
reset_ctrlpts(s) ==
    IF s.mCtrlPts.list # <<>>
    THEN [s EXCEPT !.mCtrlPts = FlatList(<<>>), !.mCtrlPts2D = <<>>,
                   !.mWeights = FlatList(<<>>),
                   !.mCtrlPts_sizeU = 0, !.mCtrlPts_sizeV = 0]
    ELSE s

\* Surface._check_variables: TRUE when the call returns, FALSE when it raises
check_variables(s) ==
    /\ ~(s.mDegreeU = 0 \/ s.mDegreeV = 0)
    /\ s.mCtrlPts.list # <<>>
    /\ ~(s.mKnotVectorU = <<>> \/ s.mKnotVectorV = <<>>)

\* Surface.degree_u (setter)
set_degree_u(s, value) ==
    IF value < 0 THEN Raise(s, "ValueError")
    ELSE Return([reset_surface(s) EXCEPT !.mDegreeU = value], <<>>)

\* Surface.degree_v (setter)
set_degree_v(s, value) ==
    IF value < 0 THEN Raise(s, "ValueError")
    ELSE Return([reset_surface(s) EXCEPT !.mDegreeV = value], <<>>)

\* the loop over the rows of value in the ctrlpts setter, from row r on,
\* with acc the points appended to _mCtrlPts so far
RECURSIVE ScanRows(_, _, _, _)
ScanRows(value, degreeU, r, acc) ==
    IF r > Len(value) THEN [exc |-> "none", pts |-> acc]
    ELSE IF Len(value[r]) < degreeU + 1 THEN [exc |-> "ValueError", pts |-> acc]
    ELSE LET row == value[r]
             bad == {c \in 1..Len(row) : Len(row[c]) > 3}
             upto == IF bad = {} THEN Len(row)
                     ELSE (CHOOSE c \in bad : \A d \in bad : c <= d) - 1
             more == [c \in 1..upto |-> FloatSeq(row[c])]
         IN  IF bad # {} THEN [exc |-> "ValueError", pts |-> acc \o more]
             ELSE ScanRows(value, degreeU, r + 1, acc \o more)

\* Surface.ctrlpts (setter)
set_ctrlpts(s, value) ==
    LET s0 == reset_ctrlpts(reset_surface(s))
        scan == ScanRows(value, s0.mDegreeU, 1, s0.mCtrlPts.list)
        s1 == [s0 EXCEPT !.mCtrlPts = FlatList(scan.pts)]
        sizeU == Len(value)
        sizeV == Len(value)
        s2 == [s1 EXCEPT !.mCtrlPts_sizeU = sizeU, !.mCtrlPts_sizeV = sizeV]
        \* the rows of the 2D view that the flat list is long enough to fill
        full == {i \in 0..sizeU : i * sizeV <= Len(scan.pts)}
        nrows == CHOOSE i \in full : \A k \in full : k <= i
        rows == [i \in 1..nrows |-> [j \in 1..sizeV |-> PyAt(scan.pts, (j - 1) + (i - 1) * sizeV)]]
        s3 == [s2 EXCEPT !.mCtrlPts2D = s2.mCtrlPts2D \o rows]
    IN  IF Len(value) < s0.mDegreeV + 1 THEN Raise(s0, "ValueError")
        ELSE IF scan.exc # "none" THEN Raise(s1, scan.exc)
        ELSE IF nrows < sizeU THEN Raise(s3, "IndexError")
        ELSE Return([s3 EXCEPT !.mWeights = FlatList([i \in 1..(sizeU * sizeV) |-> ROne])], <<>>)

\* Surface.weights (setter)
set_weights(s, value) ==
    IF Len(value) # s.mCtrlPts_sizeU * s.mCtrlPts_sizeV THEN Raise(s, "ValueError")
    ELSE Return([reset_surface(s) EXCEPT !.mWeights = FlatList(FloatSeq(value))], <<>>)

\* Surface.knotvector_u (setter)
set_knotvector_u(s, value) ==
    LET s0 == reset_surface(s)
        nv == normalize_knotvector(FloatSeq(value))
    IN  IF nv.exc # "none" THEN Raise(s0, nv.exc)
        ELSE Return([s0 EXCEPT !.mKnotVectorU = nv.val], <<>>)

\* Surface.knotvector_v (setter)
set_knotvector_v(s, value) ==
    LET s0 == reset_surface(s)
        nv == normalize_knotvector(FloatSeq(value))
    IN  IF nv.exc # "none" THEN Raise(s0, nv.exc)
        ELSE Return([s0 EXCEPT !.mKnotVectorV = nv.val], <<>>)

\* Surface.delta (setter); value is a rational
set_delta(s, value) ==
    IF RLe(value, RZero) \/ RLe(ROne, value) THEN Raise(s, "ValueError")
    ELSE Return([reset_surface(s) EXCEPT !.mDelta = value], <<>>)

\* Surface.ctrlptsw (getter): one entry per pair of itertools.product
get_ctrlptsw(s) ==
    LET cs == s.mCtrlPts.list
        ws == s.mWeights.list
        n == Len(cs)
        m == Len(ws)
    IN  IF cs = <<>> \/ ws = <<>> THEN Return(s, <<>>)
        ELSE IF s.mCtrlPts.nested
            THEN (IF cs[1] = <<>> THEN Raise(s, "IndexError") ELSE Raise(s, "TypeError"))
        ELSE IF s.mWeights.nested THEN Raise(s, "TypeError")
        ELSE IF \E i \in 1..n : Len(cs[i]) < 3 THEN Raise(s, "IndexError")
        ELSE Return(s, [t \in 1..(n * m) |->
                LET c == cs[((t - 1) \div m) + 1]
                    w == ws[((t - 1) % m) + 1]
                IN  <<RMul(c[1], w), RMul(c[2], w), RMul(c[3], w), w>>])

\* Surface.ctrlptsw (setter); value is [nested, list]: a list of rows of
\* 4-tuples (nested), or a list whose items are themselves 4-tuples of floats
set_ctrlptsw(s, value) ==
    LET rows == value.list
        zero == \E i \in 1..Len(rows) : \E j \in 1..Len(rows[i]) : RIsZero(rows[i][j][4])
        pts == [i \in 1..Len(rows) |->
                  [j \in 1..Len(rows[i]) |->
                     LET c == rows[i][j]
                     IN  <<RDiv(c[1], c[4]), RDiv(c[2], c[4]), RDiv(c[3], c[4])>>]]
        wts == [i \in 1..Len(rows) |-> [j \in 1..Len(rows[i]) |-> rows[i][j][4]]]
    IN  IF rows # <<>> /\ ~value.nested THEN Raise(s, "TypeError")
        ELSE IF zero THEN Raise(s, "ZeroDivisionError")
        ELSE Return([s EXCEPT !.mCtrlPts = NestedList(pts), !.mWeights = NestedList(wts)], <<>>)

(***************************************************************************)
(* Bulk evaluation.                                                        *)
(***************************************************************************)
\* find_span followed by basis_functions for one direction at parameter u:
\* whether the helpers apply there, the span and the basis values
AxisAt(degree, knots, span, u) ==
    IF basis_defined(degree, knots, span, u)
    THEN [defined |-> TRUE, span |-> span, basis |-> basis_functions(degree, knots, span, u)]
    ELSE [defined |-> FALSE, span |-> span, basis |-> <<>>]

Axis(degree, knots, num, u) ==
    IF find_span_defined(degree, knots, num, u)
    THEN AxisAt(degree, knots, find_span(degree, knots, num, u), u)
    ELSE [defined |-> FALSE, span |-> 0, basis |-> <<>>]

AxisU(s, u) == Axis(s.mDegreeU, s.mKnotVectorU, s.mCtrlPts_sizeU, u)
AxisV(s, v) == Axis(s.mDegreeV, s.mKnotVectorV, s.mCtrlPts_sizeV, v)

\* every table[idx_u + k][idx_v + l] of the window exists and has dim entries
WindowInRange(table, idx_u, idx_v, degreeU, degreeV, dim) ==
    \A l \in 0..degreeV : \A k \in 0..degreeU :
        /\ PyHas(table, idx_u + k)
        /\ PyHas(PyAt(table, idx_u + k), idx_v + l)
        /\ Len(PyAt(PyAt(table, idx_u + k), idx_v + l)) >= dim

\* one sample: the exception raised while summing the window of table
\* (dim components per entry); au, av are the span and basis of u and of v
window_exc(s, table, au, av, dim) ==
    IF ~av.defined \/ ~au.defined THEN "undefined"
    ELSE IF ~WindowInRange(table, au.span - s.mDegreeU, av.span - s.mDegreeV,
                           s.mDegreeU, s.mDegreeV, dim)
        THEN "IndexError"
    ELSE "none"

\* evaluate(), one sample: the body of the loops over v and u (Algorithm A3.5)
surfpt(s, au, av) ==
    LET idx_u == au.span - s.mDegreeU
        temp(l, c) ==
            RSum([kk \in 1..(s.mDegreeU + 1) |->
                RMul(au.basis[kk],
                     PyAt(PyAt(s.mCtrlPts2D, idx_u + kk - 1), av.span - s.mDegreeV + l)[c])])
    IN  PyList([c \in 1..3 |->
            RSum([ll \in 1..(s.mDegreeV + 1) |-> RMul(av.basis[ll], temp(ll - 1, c))])])

\* the t-th sample of n per axis: v is the outer loop, u the inner one
IndexU(n, t) == ((t - 1) % n) + 1
IndexV(n, t) == ((t - 1) \div n) + 1

\* the first sample that raises, n*n + 1 when none does
RECURSIVE FirstRaise(_, _, _)
FirstRaise(excs, t, last) ==
    IF t > last THEN last + 1
    ELSE IF excs[t] # "none" THEN t
    ELSE FirstRaise(excs, t + 1, last)

Explored(s) == s.mDelta[2] \div s.mDelta[1] <= MaxSteps

\* evaluate(): the loops, with the spans and basis values of every sampled
\* u (axesU) and v (axesV)
evaluate_loops(s0, n, axesU, axesV, excs, stop) ==
    LET s1 == [s0 EXCEPT !.mSurfPts =
                 PyList([t \in 1..(stop - 1) |->
                    surfpt(s0, axesU[IndexU(n, t)], axesV[IndexV(n, t)])])]
    IN  IF stop > n * n THEN Return(s1, <<>>) ELSE Raise(s1, excs[stop])

evaluate_samples(s0, n, axesU, axesV, excs) ==
    evaluate_loops(s0, n, axesU, axesV, excs, FirstRaise(excs, 1, n * n))

evaluate_axes(s0, n, axesU, axesV) ==
    evaluate_samples(s0, n, axesU, axesV,
        PyList([t \in 1..(n * n) |->
            window_exc(s0, s0.mCtrlPts2D, axesU[IndexU(n, t)], axesV[IndexV(n, t)], 3)]))

evaluate_over(s0, us) ==
    evaluate_axes(s0, Len(us), PyList([i \in 1..Len(us) |-> AxisU(s0, us[i])]),
                               PyList([i \in 1..Len(us) |-> AxisV(s0, us[i])]))

\* evaluate() as it would be with the cache cleared ahead of the precondition
\* check (the order the setters use: reset first, validate after)
evaluate_reset_first(s) ==
    IF ~check_variables(s) THEN Raise(reset_surface(s), "ValueError")
    ELSE IF ~Explored(s) THEN Raise(s, "unexplored")
    ELSE evaluate_over(reset_surface(s), frange(s.mDelta))

\* Surface.evaluate
evaluate(s) ==
    IF ~check_variables(s) THEN Raise(s, "ValueError")
    ELSE IF ~Explored(s) THEN Raise(s, "unexplored")
    ELSE evaluate_over(reset_surface(s), frange(s.mDelta))

\* evaluate_rational(): the exception raised while the 2D weighted control
\* point array is prepared ("none" when the loop completes)
ctrlptsw2d_exc(s) ==
    LET cs == s.mCtrlPts.list
        ws == s.mWeights.list
        total == s.mCtrlPts_sizeU * s.mCtrlPts_sizeV
    IN  IF total = 0 THEN "none"
        ELSE IF s.mCtrlPts.nested
            THEN (IF cs = <<>> \/ cs[1] = <<>> \/ ws = <<>> THEN "IndexError" ELSE "TypeError")
        ELSE IF s.mWeights.nested
            THEN (IF cs = <<>> \/ cs[1] = <<>> THEN "IndexError" ELSE "TypeError")
        ELSE IF total > Len(cs) \/ total > Len(ws) \/ \E i \in 1..total : Len(cs[i]) < 3
            THEN "IndexError"
        ELSE "none"

\* evaluate_rational(): the 2D weighted control point array
ctrlptsw2d(s) ==
    PyList([c_u \in 1..s.mCtrlPts_sizeU |->
        PyList([c_v \in 1..s.mCtrlPts_sizeV |->
            LET cnt == (c_u - 1) * s.mCtrlPts_sizeV + (c_v - 1)
                c == PyAt(s.mCtrlPts.list, cnt)
                w == PyAt(s.mWeights.list, cnt)
            IN  <<RMul(c[1], w), RMul(c[2], w), RMul(c[3], w), w>>])])

\* evaluate_rational(), one sample: the homogeneous sum (Algorithm A4.3)
surfptw(s, table, au, av) ==
    LET idx_u == au.span - s.mDegreeU
        temp(l, c) ==
            RSum([kk \in 1..(s.mDegreeU + 1) |->
                RMul(au.basis[kk],
                     PyAt(PyAt(table, idx_u + kk - 1), av.span - s.mDegreeV + l)[c])])
    IN  PyList([c \in 1..4 |->
            RSum([ll \in 1..(s.mDegreeV + 1) |-> RMul(av.basis[ll], temp(ll - 1, c))])])

\* evaluate_rational(), one sample: the division by the weight
project(pw) == <<RDiv(pw[1], pw[4]), RDiv(pw[2], pw[4]), RDiv(pw[3], pw[4])>>

\* evaluate_rational(), one sample: the exception raised while computing it
surfptw_exc(s, table, au, av) ==
    IF window_exc(s, table, au, av, 4) # "none" THEN window_exc(s, table, au, av, 4)
    ELSE IF RIsZero(surfptw(s, table, au, av)[4]) THEN "ZeroDivisionError"
    ELSE "none"

\* evaluate_rational(): the loops
rational_loops(s0, n, table, axesU, axesV, excs, stop) ==
    LET s1 == [s0 EXCEPT !.mSurfPts =
                 PyList([t \in 1..(stop - 1) |->
                    project(surfptw(s0, table, axesU[IndexU(n, t)], axesV[IndexV(n, t)]))])]
    IN  IF stop > n * n THEN Return(s1, <<>>) ELSE Raise(s1, excs[stop])

rational_samples(s0, n, table, axesU, axesV, excs) ==
    rational_loops(s0, n, table, axesU, axesV, excs, FirstRaise(excs, 1, n * n))

rational_axes(s0, n, table, axesU, axesV) ==
    rational_samples(s0, n, table, axesU, axesV,
        PyList([t \in 1..(n * n) |->
            surfptw_exc(s0, table, axesU[IndexU(n, t)], axesV[IndexV(n, t)])]))

rational_over(s0, us, table) ==
    rational_axes(s0, Len(us), table, PyList([i \in 1..Len(us) |-> AxisU(s0, us[i])]),
                                      PyList([i \in 1..Len(us) |-> AxisV(s0, us[i])]))

\* Surface.evaluate_rational
evaluate_rational(s) ==
    IF ~check_variables(s) THEN Raise(s, "ValueError")
    ELSE IF ~Explored(s) THEN Raise(s, "unexplored")
    ELSE IF ctrlptsw2d_exc(reset_surface(s)) # "none"
        THEN Raise(reset_surface(s), ctrlptsw2d_exc(reset_surface(s)))
    ELSE rational_over(reset_surface(s), frange(s.mDelta), ctrlptsw2d(reset_surface(s)))

(***************************************************************************)
(* Derivatives, tangent and normal at one (u, v).                          *)
(***************************************************************************)
Min(a, b) == IF a <= b THEN a ELSE b

\* temp as it would be with the control point window addressed
\* [v-index][u-index]
SKLTemp_transposed(s, span_u, bfunsders_u, span_v, k) ==
    PyList([sq \in 1..(s.mDegreeV + 1) |->
        PyList([c \in 1..3 |->
            RSum([rr \in 1..(s.mDegreeU + 1) |->
                RMul(bfunsders_u[k + 1][rr],
                     PyAt(PyAt(s.mCtrlPts2D, span_v - s.mDegreeV + (sq - 1)),
                          span_u - s.mDegreeU + (rr - 1))[c])])])])

\* derivatives(): temp[s], s = 0..degree_v, as the loops over s and r leave
\* it for one k (Algorithm A3.6)
SKLTemp(s, span_u, bfunsders_u, span_v, k) ==
    PyList([sq \in 1..(s.mDegreeV + 1) |->
        PyList([c \in 1..3 |->
            RSum([rr \in 1..(s.mDegreeU + 1) |->
                RMul(bfunsders_u[k + 1][rr],
                     PyAt(PyAt(s.mCtrlPts2D, span_u - s.mDegreeU + (rr - 1)),
                          span_v - s.mDegreeV + (sq - 1))[c])])])])

\* SKL[k][l] as it would be with the loop over l running to dv for every k
\* (no triangular truncation)
SKLEntry_untruncated(s, order, temp, bfunsders_v, k, l) ==
    LET dv == Min(s.mDegreeV, order)
        dd == dv
    IN  IF l <= dd
        THEN PyList([c \in 1..3 |->
                RSum([sq \in 1..(s.mDegreeV + 1) |-> RMul(bfunsders_v[l + 1][sq], temp[sq][c])])])
        ELSE V3Zero

\* derivatives(): SKL[k][l] as the loops over l and s leave it; the entries
\* with l > dd are never written and keep their initial zeros
SKLEntry(s, order, temp, bfunsders_v, k, l) ==
    LET dv == Min(s.mDegreeV, order)
        dd == Min(order - k, dv)
    IN  IF l <= dd
        THEN PyList([c \in 1..3 |->
                RSum([sq \in 1..(s.mDegreeV + 1) |-> RMul(bfunsders_v[l + 1][sq], temp[sq][c])])])
        ELSE V3Zero

\* derivatives(): the row SKL[k] of dv+1 entries
SKLRow(s, order, temp, bfunsders_v, k) ==
    PyList([ll \in 1..(Min(s.mDegreeV, order) + 1) |->
        SKLEntry(s, order, temp, bfunsders_v, k, ll - 1)])

\* derivatives(): the table SKL of (du+1) x (dv+1) entries
SKLTable(s, order, span_u, bfunsders_u, span_v, bfunsders_v) ==
    PyList([kk \in 1..(Min(s.mDegreeU, order) + 1) |->
        SKLRow(s, order, SKLTemp(s, span_u, bfunsders_u, span_v, kk - 1), bfunsders_v, kk - 1)])

derivatives_at(s, u, v, order, au, av) ==
    IF ~au.defined \/ ~av.defined THEN Raise(s, "undefined")
    ELSE IF ~WindowInRange(s.mCtrlPts2D, au.span - s.mDegreeU, av.span - s.mDegreeV,
                           s.mDegreeU, s.mDegreeV, 3)
        THEN Raise(s, "IndexError")
    ELSE Return(s, SKLTable(s, order,
            au.span,
            basis_functions_ders(s.mDegreeU, s.mKnotVectorU, au.span, u, Min(s.mDegreeU, order)),
            av.span,
            basis_functions_ders(s.mDegreeV, s.mKnotVectorV, av.span, v, Min(s.mDegreeV, order))))

\* Surface.derivatives
derivatives(s, u, v, order) ==
    IF ~check_variables(s) THEN Raise(s, "ValueError")
    ELSE IF check_uv(u, v, FALSE, s.mDelta) # "none" THEN Raise(s, check_uv(u, v, FALSE, s.mDelta))
    ELSE derivatives_at(s, u, v, order, AxisU(s, u), AxisV(s, v))

tangent_of(s, d) ==
    IF d.exc # "none" THEN d
    ELSE Return(s, <<d.val[1][1], d.val[2][1], d.val[1][2]>>)

\* Surface.tangent
tangent(s, u, v) == tangent_of(s, derivatives(s, u, v, 1))

normal_from(s, n, normalized) ==
    IF ~normalized THEN Return(s, n)
    ELSE IF n = V3Zero THEN Raise(s, "DegenerateNormal")
    ELSE IF ~norm_defined(n) THEN Raise(s, "undefined")
    ELSE Return(s, normalize_vector(n))

normal_of(s, d, normalized) ==
    IF d.exc # "none" THEN d
    ELSE normal_from(s, cross_vector(V3Sub(d.val[2][1], d.val[1][1]),
                                     V3Sub(d.val[1][2], d.val[1][1])), normalized)

\* Surface.normal
normal(s, u, v, normalized) ==
    IF check_uv(u, v, TRUE, s.mDelta) # "none" THEN Raise(s, check_uv(u, v, TRUE, s.mDelta))
    ELSE normal_of(s, derivatives(s, u, v, 1), normalized)

(***************************************************************************)
(* The state machine: one Surface object and its client.                   *)
(***************************************************************************)
VARIABLES mDegreeU, mDegreeV, mKnotVectorU, mKnotVectorV, mCtrlPts, mCtrlPts2D,
          mCtrlPts_sizeU, mCtrlPts_sizeV, mWeights, mDelta, mSurfPts,
          lastCall, outcome

fields == <<mDegreeU, mDegreeV, mKnotVectorU, mKnotVectorV, mCtrlPts, mCtrlPts2D,
            mCtrlPts_sizeU, mCtrlPts_sizeV, mWeights, mDelta, mSurfPts>>
vars == <<fields, lastCall, outcome>>

\* the object as a record
Surface ==
    [mDegreeU |-> mDegreeU, mDegreeV |-> mDegreeV,
     mKnotVectorU |-> mKnotVectorU, mKnotVectorV |-> mKnotVectorV,
     mCtrlPts |-> mCtrlPts, mCtrlPts2D |-> mCtrlPts2D,
     mCtrlPts_sizeU |-> mCtrlPts_sizeU, mCtrlPts_sizeV |-> mCtrlPts_sizeV,
     mWeights |-> mWeights, mDelta |-> mDelta, mSurfPts |-> mSurfPts]

\* the fields that configure the surface (all but the surface point cache)
Config ==
    <<mDegreeU, mDegreeV, mKnotVectorU, mKnotVectorV, mCtrlPts, mCtrlPts2D,
      mCtrlPts_sizeU, mCtrlPts_sizeV, mWeights, mDelta>>

\* the call op(arg) ends as r says: the object becomes r.st, the client sees
\* the exception or the value.  A call outside the explored domain is not taken.
Commit(r, op, arg) ==
    /\ r.exc \notin {"undefined", "unexplored"}
    /\ mDegreeU' = r.st.mDegreeU
    /\ mDegreeV' = r.st.mDegreeV
    /\ mKnotVectorU' = r.st.mKnotVectorU
    /\ mKnotVectorV' = r.st.mKnotVectorV
    /\ mCtrlPts' = r.st.mCtrlPts
    /\ mCtrlPts2D' = r.st.mCtrlPts2D
    /\ mCtrlPts_sizeU' = r.st.mCtrlPts_sizeU
    /\ mCtrlPts_sizeV' = r.st.mCtrlPts_sizeV
    /\ mWeights' = r.st.mWeights
    /\ mDelta' = r.st.mDelta
    /\ mSurfPts' = r.st.mSurfPts
    /\ lastCall' = [op |-> op, arg |-> arg]
    /\ outcome' = [exc |-> r.exc, val |-> r.val]

(***************************************************************************)
(* The arguments the client passes.                                        *)
(***************************************************************************)
DegreeInputs == (-1)..MaxDegree

KnotInputs == {<<>>, <<0, 0, 2, 2>>}

\* the flat bilinear patch
GridFlat22 == << <<<<0, 0, 0>>, <<1, 0, 0>>>>, <<<<0, 1, 0>>, <<1, 1, 0>>>> >>
\* R rows of C points (c, r, r*c)
GridRC(nr, nc) == [r \in 1..nr |-> [c \in 1..nc |-> <<c - 1, r - 1, (r - 1) * (c - 1)>>]]
\* a second row shorter than the first
GridRagged == << <<<<0, 0, 0>>, <<1, 0, 0>>>>, <<<<0, 1, 0>>>> >>

GridInputs == {GridFlat22, GridRC(2, 3), GridRagged}

WeightInputs == {<<1, 1, 1, 1>>, <<1, 1, -1, -1>>, <<1, 2>>}

DeltaInputs == {<<0, 1>>, <<1, 1>>, <<1, 2>>}

\* rows of homogeneous points (x*w, y*w, z*w, w)
H(x, y, z, w) == <<R(x), R(y), R(z), R(w)>>
CtrlPtsWInputs ==
    {NestedList(<<>>),
     NestedList(<< <<H(0, 0, 0, 1), H(2, 0, 0, 2)>>, <<H(0, 2, 0, 2), H(1, 1, 0, 1)>> >>),
     NestedList(<< <<H(0, 0, 0, 1), H(1, 0, 0, 0)>> >>)}

(***************************************************************************)
(* The calls.                                                              *)
(***************************************************************************)
\* the object is s and the client has just made the call op
StartAs(s, op) ==
    /\ mDegreeU = s.mDegreeU
    /\ mDegreeV = s.mDegreeV
    /\ mKnotVectorU = s.mKnotVectorU
    /\ mKnotVectorV = s.mKnotVectorV
    /\ mCtrlPts = s.mCtrlPts
    /\ mCtrlPts2D = s.mCtrlPts2D
    /\ mCtrlPts_sizeU = s.mCtrlPts_sizeU
    /\ mCtrlPts_sizeV = s.mCtrlPts_sizeV
    /\ mWeights = s.mWeights
    /\ mDelta = s.mDelta
    /\ mSurfPts = s.mSurfPts
    /\ lastCall = [op |-> op, arg |-> <<>>]
    /\ outcome = [exc |-> "none", val |-> <<>>]

Init == StartAs(NewSurface, "__init__")

SetDegreeU == \E value \in DegreeInputs : Commit(set_degree_u(Surface, value), "degree_u", <<>>)

SetDegreeV == \E value \in DegreeInputs : Commit(set_degree_v(Surface, value), "degree_v", <<>>)

SetCtrlpts ==
    /\ Len(reset_ctrlpts(Surface).mCtrlPts2D) <= MaxRows2D
    /\ \E value \in GridInputs : Commit(set_ctrlpts(Surface, value), "ctrlpts", value)

SetWeights == \E value \in WeightInputs : Commit(set_weights(Surface, value), "weights", <<>>)

SetKnotvectorU == \E value \in KnotInputs : Commit(set_knotvector_u(Surface, value), "knotvector_u", <<>>)

SetKnotvectorV == \E value \in KnotInputs : Commit(set_knotvector_v(Surface, value), "knotvector_v", <<>>)

SetDelta == \E value \in DeltaInputs : Commit(set_delta(Surface, value), "delta", <<>>)

GetCtrlptsw == Commit(get_ctrlptsw(Surface), "ctrlptsw", <<>>)

SetCtrlptsw == \E value \in CtrlPtsWInputs : Commit(set_ctrlptsw(Surface, value), "ctrlptsw=", <<>>)

\* surf.ctrlptsw = surf.ctrlptsw
SetCtrlptswFromGetter ==
    /\ get_ctrlptsw(Surface).exc = "none"
    /\ Commit(set_ctrlptsw(Surface, FlatList(get_ctrlptsw(Surface).val)), "ctrlptsw=ctrlptsw", <<>>)

Evaluate == Commit(evaluate(Surface), "evaluate", <<>>)

EvaluateRational == Commit(evaluate_rational(Surface), "evaluate_rational", <<>>)

Next ==
    \/ SetDegreeU
    \/ SetDegreeV
    \/ SetCtrlpts
    \/ SetWeights
    \/ SetKnotvectorU
    \/ SetKnotvectorV
    \/ SetDelta
    \/ GetCtrlptsw
    \/ SetCtrlptsw
    \/ SetCtrlptswFromGetter
    \/ Evaluate
    \/ EvaluateRational

Spec == Init /\ [][Next]_vars

(***************************************************************************)
(* Differential geometry on configured surfaces: the object is set up in   *)
(* the documented order (degrees, knot vectors, control points, delta),    *)
(* then queried at single parameters and sampled.                          *)
(***************************************************************************)
\* the clamped knot vector of n control points of degree p: 0 (p+1 times),
\* 1, 2, ..., n-p (p+1 times)
ClampedKnots(p, n) ==
    [i \in 1..(n + p + 1) |-> IF i <= p + 1 THEN 0 ELSE IF i > n THEN n - p ELSE i - p - 1]

Configured(p, q, grid, delta) ==
    LET n == Len(grid)
        s1 == set_degree_u(NewSurface, p).st
        s2 == set_degree_v(s1, q).st
        s3 == set_knotvector_u(s2, ClampedKnots(p, n)).st
        s4 == set_knotvector_v(s3, ClampedKnots(q, n)).st
        s5 == set_ctrlpts(s4, grid).st
    IN  set_delta(s5, delta).st

ConfiguredGrids(n) == IF n = 2 THEN {GridFlat22, GridRC(2, 2)} ELSE {GridRC(n, n)}

\* (u, v) as the client passes them: the defaults (-1, -1), an edge point,
\* interior points and the far corner of the unit square
PointInputs ==
    {<<(<<-1, 1>>), (<<-1, 1>>)>>, <<(<<0, 1>>), (<<1, 2>>)>>, <<(<<1, 4>>), (<<1, 4>>)>>,
     <<(<<1, 4>>), (<<3, 4>>)>>, <<(<<1, 2>>), (<<1, 2>>)>>, <<(<<3, 4>>), (<<3, 4>>)>>,
     <<(<<1, 1>>), (<<1, 1>>)>>}

\* n x n control points, each degree linear or the highest n points support
InitDiff ==
    \E n \in 2..(MaxDegree + 1) : \E p \in {1, n - 1} : \E q \in {1, n - 1} :
        \E grid \in ConfiguredGrids(n) : \E delta \in {DefaultDelta, <<1, 2>>} :
            StartAs(Configured(p, q, grid, delta), "delta")

Derivatives ==
    \E uv \in PointInputs : \E order \in 0..MaxOrder :
        Commit(derivatives(Surface, uv[1], uv[2], order), "derivatives", <<uv[1], uv[2], order>>)

Tangent ==
    \E uv \in PointInputs :
        Commit(tangent(Surface, uv[1], uv[2]), "tangent", <<uv[1], uv[2]>>)

Normal ==
    \E uv \in PointInputs : \E normalized \in BOOLEAN :
        Commit(normal(Surface, uv[1], uv[2], normalized), "normal", <<uv[1], uv[2], normalized>>)

NextDiff ==
    \/ Derivatives
    \/ Tangent
    \/ Normal
    \/ Evaluate
    \/ EvaluateRational

SpecDiff == InitDiff /\ [][NextDiff]_vars

(***************************************************************************)
(* Properties.                                                             *)
(***************************************************************************)
\* what _check_variables requires is missing: a zero degree, an empty knot
\* vector or an empty control net
PreconditionViolated ==
    \/ mDegreeU = 0
    \/ mDegreeV = 0
    \/ mKnotVectorU = <<>>
    \/ mKnotVectorV = <<>>
    \/ mCtrlPts.list = <<>>

\* every weight is 1.0
WeightsAllOne ==
    IF mWeights.nested
    THEN \A i \in 1..Len(mWeights.list) : \A j \in 1..Len(mWeights.list[i]) :
            mWeights.list[i][j] = ROne
    ELSE \A i \in 1..Len(mWeights.list) : mWeights.list[i] = ROne

\* C1: a call that changes a degree, a knot vector, the control net, the
\* weights or delta leaves the surface point cache empty, so a non-empty
\* cache was always computed from the current configuration.
C1_CacheInvalidated == [][Config' # Config => mSurfPts' = <<>>]_vars

\* C2: evaluate() and evaluate_rational() called with a precondition
\* missing raise the precondition error (ValueError) and leave surfpts and
\* every configuration field as they were.
C2_FailFast ==
    [][(lastCall'.op \in {"evaluate", "evaluate_rational"} /\ PreconditionViolated)
        => (outcome'.exc = "ValueError" /\ UNCHANGED fields)]_vars

\* C2 happens: an evaluation was refused while the cache held points
C2_Witness ==
    /\ lastCall.op \in {"evaluate", "evaluate_rational"}
    /\ outcome.exc = "ValueError"
    /\ PreconditionViolated
    /\ mSurfPts # <<>>

\* C3: whenever the control net is non-empty, sizeU >= degree_u + 1 and
\* sizeV >= degree_v + 1.
C3_SizesCoverDegrees ==
    mCtrlPts.list # <<>> =>
        /\ mCtrlPts_sizeU >= mDegreeU + 1
        /\ mCtrlPts_sizeV >= mDegreeV + 1

\* a grid of R >= 1 rows of C points each
Rectangular(value) ==
    /\ value # <<>>
    /\ \A r \in 1..Len(value) : Len(value[r]) = Len(value[1])

\* C4: after a successful ctrlpts assignment of R rows of C points the flat
\* list holds R*C points, sizeU * sizeV = R*C, the 2D view has sizeU rows of
\* sizeV points with ctrlpts2d[i][j] = flat[i*sizeV + j], and there are R*C
\* weights, all 1.0.
C4_FlatAnd2DAgree ==
    (lastCall.op = "ctrlpts" /\ outcome.exc = "none" /\ Rectangular(lastCall.arg)) =>
        LET total == Len(lastCall.arg) * Len(lastCall.arg[1])
        IN  /\ ~mCtrlPts.nested
            /\ Len(mCtrlPts.list) = total
            /\ mCtrlPts_sizeU * mCtrlPts_sizeV = total
            /\ Len(mCtrlPts2D) = mCtrlPts_sizeU
            /\ \A i \in 1..Len(mCtrlPts2D) :
                /\ Len(mCtrlPts2D[i]) = mCtrlPts_sizeV
                /\ \A j \in 1..Len(mCtrlPts2D[i]) :
                    /\ PyHas(mCtrlPts.list, (i - 1) * mCtrlPts_sizeV + (j - 1))
                    /\ mCtrlPts2D[i][j] = PyAt(mCtrlPts.list, (i - 1) * mCtrlPts_sizeV + (j - 1))
            /\ ~mWeights.nested
            /\ Len(mWeights.list) = total
            /\ WeightsAllOne

\* C5: on a configuration that passes the preconditions and whose weights
\* are all 1.0, evaluate_rational() leaves the surfpts that evaluate() leaves.
C5_RationalDegenerates ==
    [][(lastCall'.op = "evaluate_rational" /\ ~PreconditionViolated /\ WeightsAllOne)
        => mSurfPts' = evaluate(Surface).st.mSurfPts]_vars

\* the object is the flat bilinear patch (with any delta)
IsFlatPatch == Config = <<1, 1, FloatSeq(<<0, 0, 1, 1>>), FloatSeq(<<0, 0, 1, 1>>),
                          Configured(1, 1, GridFlat22, mDelta).mCtrlPts,
                          Configured(1, 1, GridFlat22, mDelta).mCtrlPts2D,
                          2, 2, FlatList(<<ROne, ROne, ROne, ROne>>), mDelta>>

\* C6: on the flat bilinear patch every normal(u, v) the domain check
\* accepts returns (0, 0, 1) or (0, 0, -1), and the same vector as at every
\* other accepted (u, v).
C6_FlatPatchNormal ==
    (/\ IsFlatPatch
     /\ lastCall.op = "normal"
     /\ lastCall.arg[3]
     /\ check_uv(lastCall.arg[1], lastCall.arg[2], TRUE, mDelta) = "none") =>
        /\ outcome.exc = "none"
        /\ outcome.val \in {<<RZero, RZero, ROne>>, <<RZero, RZero, R(-1)>>}
        /\ \A uv \in PointInputs :
            check_uv(uv[1], uv[2], TRUE, mDelta) = "none" =>
                normal(Surface, uv[1], uv[2], TRUE) = Return(Surface, outcome.val)

\* C7: an evaluate_rational() that fails with a division by zero leaves no
\* point of that pass in surfpts.
C7_NoPartialResults ==
    (lastCall.op = "evaluate_rational" /\ outcome.exc = "ZeroDivisionError") => mSurfPts = <<>>

\* every weight is non-zero
WeightsNonZero ==
    /\ ~mWeights.nested
    /\ \A i \in 1..Len(mWeights.list) : ~RIsZero(mWeights.list[i])

\* the control net and the weights are flat lists of the same length: every
\* control point has its index-aligned weight
OnePerPoint ==
    /\ ~mCtrlPts.nested
    /\ ~mWeights.nested
    /\ Len(mWeights.list) = Len(mCtrlPts.list)
    /\ \A i \in 1..Len(mCtrlPts.list) : Len(mCtrlPts.list[i]) = 3

\* C8: the ctrlptsw getter returns one entry per control point, entry i
\* being (x_i*w_i, y_i*w_i, z_i*w_i, w_i), and assigning that view back
\* through the ctrlptsw setter restores the positions and the weights.
C8_HomogeneousRoundTrip ==
    [][/\ (lastCall'.op = "ctrlptsw" /\ OnePerPoint) =>
            /\ outcome'.exc = "none"
            /\ Len(outcome'.val) = Len(mCtrlPts.list)
            /\ \A i \in 1..Len(outcome'.val) :
                /\ i <= Len(mWeights.list)
                /\ outcome'.val[i] = <<RMul(mCtrlPts.list[i][1], mWeights.list[i]),
                                       RMul(mCtrlPts.list[i][2], mWeights.list[i]),
                                       RMul(mCtrlPts.list[i][3], mWeights.list[i]),
                                       mWeights.list[i]>>
       /\ (lastCall'.op = "ctrlptsw=ctrlptsw" /\ OnePerPoint /\ WeightsNonZero) =>
            /\ outcome'.exc = "none"
            /\ mCtrlPts' = mCtrlPts
            /\ mWeights' = mWeights]_vars

\* the index of (u, v) in the order evaluate() visits the samples, 0 when
\* (u, v) is no sample
SampleIndex(us, u, v) ==
    LET hits == {t \in 1..(Len(us) * Len(us)) :
                    us[IndexU(Len(us), t)] = u /\ us[IndexV(Len(us), t)] = v}
    IN  IF hits = {} THEN 0 ELSE CHOOSE t \in hits : TRUE

\* C9: SKL[0][0] of derivatives(u, v, order) is the surface point of
\* evaluate() at (u, v): the sum evaluate() forms for that sample, and the
\* entry evaluate() leaves in surfpts when (u, v) is one of its samples.
C9_ZerothDerivativeIsPoint ==
    (lastCall.op = "derivatives" /\ outcome.exc = "none") =>
        /\ outcome.val[1][1] =
              surfpt(Surface, AxisU(Surface, lastCall.arg[1]), AxisV(Surface, lastCall.arg[2]))
        /\ \A e \in {evaluate(Surface)} :
              \A t \in {SampleIndex(frange(mDelta), lastCall.arg[1], lastCall.arg[2])} :
                 (e.exc = "none" /\ t # 0) => e.st.mSurfPts[t] = outcome.val[1][1]

\* C9 happens: derivatives at a sample of a surface evaluate() has sampled
C9_Witness ==
    /\ lastCall.op = "derivatives"
    /\ outcome.exc = "none"
    /\ lastCall.arg[1] = <<1, 2>>
    /\ lastCall.arg[3] >= 1
    /\ mDegreeU = 2
    /\ mDegreeV = 1
    /\ mSurfPts # <<>>
    /\ mSurfPts[SampleIndex(frange(mDelta), lastCall.arg[1], lastCall.arg[2])] = outcome.val[1][1]

\* sum over r, s of bu[k][r] * bv[l][s] * P[span_u - p + r][span_v - q + s]
Contraction(au, av, bu, bv, k, l) ==
    [c \in 1..3 |->
        RSum([rr \in 1..(mDegreeU + 1) |->
            RSum([sq \in 1..(mDegreeV + 1) |->
                RMul(RMul(bu[k + 1][rr], bv[l + 1][sq]),
                     PyAt(PyAt(mCtrlPts2D, au.span - mDegreeU + (rr - 1)),
                          av.span - mDegreeV + (sq - 1))[c])])])]

\* the table SKL is (du+1) x (dv+1), zero where k + l > order and the
\* contraction with the derivative rows bu[k], bv[l] elsewhere
TableAsSpecified(SKL, order, au, av, bu, bv) ==
    /\ Len(SKL) = Min(mDegreeU, order) + 1
    /\ \A kk \in 1..Len(SKL) :
        /\ Len(SKL[kk]) = Min(mDegreeV, order) + 1
        /\ \A ll \in 1..Len(SKL[kk]) :
            SKL[kk][ll] = IF (kk - 1) + (ll - 1) > order THEN V3Zero
                          ELSE Contraction(au, av, bu, bv, kk - 1, ll - 1)

\* C10: derivatives(u, v, order) returns min(degree_u, order)+1 rows of
\* min(degree_v, order)+1 entries; SKL[k][l] is the zero vector where
\* k + l > order and the contraction of the control point window with the
\* k-th u-derivative and l-th v-derivative basis rows elsewhere.
C10_DerivativeTable ==
    (lastCall.op = "derivatives" /\ outcome.exc = "none") =>
        \A au \in {AxisU(Surface, lastCall.arg[1])} : \A av \in {AxisV(Surface, lastCall.arg[2])} :
            \A bu \in {basis_functions_ders(mDegreeU, mKnotVectorU, au.span, lastCall.arg[1],
                                            Min(mDegreeU, lastCall.arg[3]))} :
                \A bv \in {basis_functions_ders(mDegreeV, mKnotVectorV, av.span, lastCall.arg[2],
                                                Min(mDegreeV, lastCall.arg[3]))} :
                    TableAsSpecified(outcome.val, lastCall.arg[3], au, av, bu, bv)

\* C10 happens: a table whose entry SKL[1][1] the truncation left zero
\* although the contraction there is not
C10_Witness ==
    /\ lastCall.op = "derivatives"
    /\ outcome.exc = "none"
    /\ lastCall.arg[3] = 1
    /\ Len(outcome.val) = 2
    /\ outcome.val[2][2] = V3Zero
    /\ outcome.val[2][1] # V3Zero
    /\ \A au \in {AxisU(Surface, lastCall.arg[1])} : \A av \in {AxisV(Surface, lastCall.arg[2])} :
        \A bu \in {basis_functions_ders(mDegreeU, mKnotVectorU, au.span, lastCall.arg[1], 1)} :
            \A bv \in {basis_functions_ders(mDegreeV, mKnotVectorV, av.span, lastCall.arg[2], 1)} :
                Contraction(au, av, bu, bv, 1, 1) # V3Zero

\* C11: a degree, delta, weights or ctrlpts assignment that is rejected
\* (ValueError: negative degree, delta outside (0, 1), weight list of the
\* wrong length, too few rows or too short a row) leaves every field of the
\* object, the surface point cache included, as it was before the call.
C11_RejectedSetterKeepsState ==
    [][(/\ lastCall'.op \in {"degree_u", "degree_v", "delta", "weights", "ctrlpts"}
        /\ outcome'.exc = "ValueError")
        => UNCHANGED fields]_vars

====
